---- MODULE Spec2Model ----
(***************************************************************************)
(* Model of the glucose projection engine of cgmsim-local                  *)
(* (src/utils/glucoseSimulator.ts, src/types/index.ts).                    *)
(*                                                                         *)
(* Representation of the numbers of the source:                            *)
(*   Date                    integer milliseconds; 0 is a local midnight   *)
(*   curve fractions         integers in units of 1/Scale                  *)
(*   glucose (unrounded)     integers in units of 1/Scale mg/dL            *)
(*   reading.value           tenths of mg/dL   (Math.round(x*10)/10)       *)
(*   reading.iob             hundredths of U   (Math.round(x*100)/100)     *)
(*   reading.cob             tenths of g       (Math.round(x*10)/10)       *)
(*   basalRates[h]           tenths of U/h                                 *)
(*   liverGlucoseProduction  tenths of mg/dL per minute                    *)
(*   treatment.value         whole units / whole grams                     *)
(* With Scale = 1200 every interpolation of the two default curves is      *)
(* exact whenever the elapsed time is a whole number of minutes.           *)
(***************************************************************************)
EXTENDS Integers, Sequences, FiniteSets, TLC

VARIABLES
    patient,           \* the caller's Patient object
    treatments,        \* the caller's Treatment[]
    existingReadings,  \* the caller's GlucoseReading[] handed to updateSimulation
    now,               \* the wall clock, what `new Date()` returns
    intervalMinutes,   \* GlucoseSimulator.intervalMinutes (instance field)
    call,              \* the last call made on the simulator and its arguments
    result,            \* the GlucoseReading[] returned by the last call
    pastReadings,      \* updateSimulation's local array `pastReadings` at return
    forwardLog,        \* start instants and timestamps of the last two simulateForward calls
    simulateLog,       \* wall clock and readings of the last two simulate calls
    store,             \* the zustand state of useSimulationStore
    db,                \* the SQLite tables of database.ts
    tasks,             \* the async handlers in flight: where each one is, and its locals
    used,              \* how many handlers have been started and how many writes have failed
    timers             \* the setInterval timers: the ids that are live, and how many were created

storeVars == <<store, db, tasks, used, timers>>

vars == <<patient, treatments, existingReadings, now, intervalMinutes,
          call, result, pastReadings, forwardLog, simulateLog, storeVars>>

-----------------------------------------------------------------------------
(* Arithmetic helpers *)

Scale == 12 * 100
MsPerMinute == 1000 * 60
MsPerHour == 1000 * 60 * 60

Max(a, b) == IF a >= b THEN a ELSE b
Min(a, b) == IF a <= b THEN a ELSE b

\* Math.floor(a / b) in the place of Math.ceil
CeilRoundedDown(a, b) == a \div b

\* Math.ceil(a / b) for a >= 0, b > 0
Ceil(a, b) == (a + b - 1) \div b

\* the number NaN: every sum, Math.max, Math.min and Math.round that takes it
\* returns it
NaN == 0 - 1000000

\* Math.round(x * f), x given in 1/Scale units: round half up
Round(x, f) == IF x = NaN THEN NaN ELSE (x * f + (Scale \div 2)) \div Scale

RECURSIVE Sum(_)
Sum(s) == IF s = <<>> THEN 0 ELSE Head(s) + Sum(Tail(s))

\* The local-time fields of a Date
getMilliseconds(date) == date % 1000
getSeconds(date) == (date \div 1000) % 60
getMinutes(date) == (date \div MsPerMinute) % 60
getHours(date) == (date \div MsPerHour) % 24

-----------------------------------------------------------------------------
(* src/utils/glucoseSimulator.ts:12-25 *)

alignToFiveMinutes(date) ==
    LET minutes == getMinutes(date)
        remainder == minutes % 5
    IN  IF remainder # 0
        THEN \* setMinutes(minutes - remainder); setSeconds(0); setMilliseconds(0)
             date - remainder * MsPerMinute - getSeconds(date) * 1000 - getMilliseconds(date)
        ELSE date

-----------------------------------------------------------------------------
(* src/types/index.ts:62-83; fractions written in thousandths *)

\* DEFAULT_INSULIN_CURVE with a peak activity above 1
INSULIN_CURVE_HIGH_PEAK ==
    << [time |-> 0,   activity |-> 0],
       [time |-> 15,  activity |-> 100],
       [time |-> 30,  activity |-> 300],
       [time |-> 60,  activity |-> 700],
       [time |-> 90,  activity |-> 1200],
       [time |-> 120, activity |-> 800],
       [time |-> 180, activity |-> 500],
       [time |-> 240, activity |-> 200],
       [time |-> 300, activity |-> 50],
       [time |-> 360, activity |-> 0] >>

DEFAULT_INSULIN_CURVE ==
    << [time |-> 0,   activity |-> 0],
       [time |-> 15,  activity |-> 100],
       [time |-> 30,  activity |-> 300],
       [time |-> 60,  activity |-> 700],
       [time |-> 90,  activity |-> 1000],
       [time |-> 120, activity |-> 800],
       [time |-> 180, activity |-> 500],
       [time |-> 240, activity |-> 200],
       [time |-> 300, activity |-> 50],
       [time |-> 360, activity |-> 0] >>

DEFAULT_CARB_CURVE ==
    << [time |-> 0,   absorption |-> 0],
       [time |-> 15,  absorption |-> 200],
       [time |-> 30,  absorption |-> 500],
       [time |-> 60,  absorption |-> 800],
       [time |-> 90,  absorption |-> 950],
       [time |-> 120, absorption |-> 1000] >>

\* a fraction written in thousandths, in units of 1/Scale
Frac(thousandths) == (thousandths * Scale) \div 1000

-----------------------------------------------------------------------------
(* generateNoise: sin(t/100) * cos(t/200) * sin(t/50), tabulated in         *)
(* thousandths for t = 0, 1, 2, ... minutes                                 *)

NoiseSeed ==
 <<
    0, 0, 1, 2, 3, 5, 7, 10, 13, 16, 20, 24, 28, 33, 38,
    44, 50, 56, 63, 70, 77, 85, 92, 101, 109, 118, 127, 136, 145, 155,
    165, 175, 185, 196, 207, 218, 229, 240, 251, 262, 274, 285, 297, 309, 320,
    332, 344, 356, 367, 379, 391, 403, 414, 426, 437, 448, 460, 471, 481, 492,
    503, 513, 523, 533, 543, 553, 562, 571, 580, 588, 596, 604, 612, 619, 626,
    633, 639, 645, 650, 656, 660, 665, 669, 673, 676, 679, 681, 683, 685, 686,
    687, 687, 687, 687, 686, 685, 683, 681, 678, 675, 671, 668, 663, 659, 653,
    648, 642, 636, 629, 622, 614, 606, 598, 590, 581, 571, 562, 552, 541, 531,
    520, 508, 497, 485, 473, 461, 448, 435, 422, 409, 395, 382, 368, 354, 340,
    326, 311, 297, 282, 267, 252, 238, 223, 208, 193, 178, 163, 148, 133, 118,
    103, 88, 73, 59, 44, 30, 15, 1, -13, -27, -41, -54, -68, -81, -94,
    -107, -119, -132, -144, -156, -167, -179, -190, -200, -211, -221, -231, -241, -250, -259,
    -268, -276, -284, -292, -299, -307, -313, -320, -326, -331, -337, -342, -347, -351, -355,
    -359, -362, -365, -368, -370, -372, -373, -375, -376, -377, -377, -377, -377, -376, -375,
    -374, -373, -371, -369, -367, -365, -362, -359, -356, -353, -349, -345, -341, -337, -333,
    -328, -323, -318, -313, -308, -303, -297, -292, -286, -280, -274, -268, -262, -256, -250,
    -244, -238, -231, -225, -219, -212, -206, -200, -193, -187, -181, -175, -169, -163, -156,
    -151, -145, -139, -133, -127, -122, -116, -111, -106, -101, -96, -91, -86, -81, -77,
    -72, -68, -64, -60, -56, -52, -49, -45, -42, -39, -36, -33, -30, -28, -25,
    -23, -21, -19, -17, -15, -13, -12, -10, -9, -8, -7, -6, -5, -4, -3,
    -3, -2, -2, -1, -1, -1, -1, 0, 0, 0, 0, 0, 0, 0, 0,
    0, 0, 0, 0, 0, 0, 0, 0, 1, 1, 1, 2, 2, 3, 3,
    4, 5, 6, 6, 8, 9, 10, 11, 13, 15, 16, 18, 20, 22, 25,
    27, 30, 32, 35, 38, 41, 44, 48, 51, 55, 59, 63, 67, 71, 75,
    80, 84, 89, 94, 99, 104, 109, 115, 120, 126, 131, 137, 143, 149, 155,
    161, 167, 173, 179, 185, 191, 198, 204, 210, 217, 223, 229, 236, 242, 248,
    254, 260, 266, 272, 278, 284, 290, 295, 301, 306, 312, 317, 322, 326, 331,
    336, 340, 344, 348, 351, 355, 358, 361, 364, 366, 369, 371, 372, 374, 375,
    376, 377, 377, 377, 377, 376, 375, 374, 372, 370, 368, 366, 363, 360, 356,
    352, 348, 343, 338, 333, 328, 322, 315, 309, 302, 294, 287, 279, 271, 262,
    253, 244, 234, 224, 214, 204, 193, 182, 171, 159, 148, 136, 123, 111, 98,
    85, 72, 59, 45, 31, 17, 3, -11, -25, -40, -54, -69, -83, -98, -113,
    -128, -143, -158, -173, -188, -203, -218, -233, -248, -263, -277, -292, -307, -321, -335,
    -349, -364, -377, -391, -405, -418, -431, -444, -457, -469, -481, -493, -505, -516, -527,
    -538, -548, -558, -568, -578, -587, -595, -604, -612, -619, -627, -634, -640, -646, -652,
    -657, -662, -666, -670, -674, -677, -680, -682, -684, -685, -687, -687, -687, -687, -686,
    -685, -684, -682, -680, -677, -674, -670, -666, -662, -657, -652, -647, -641, -635, -628,
    -621, -614, -607, -599, -591, -582, -574, -565, -556, -546, -536, -527, -516, -506, -496,
    -485, -474, -463, -452, -441, -429, -418, -406, -395, -383, -371, -359, -348, -336, -324,
    -312, -301, -289, -277, -266, -255, -243, -232, -221, -210, -199, -189, -178, -168, -158,
    -148, -139, -130, -121, -112, -103, -95, -87, -79, -72, -65, -58, -52, -46, -40,
    -35, -30, -25, -21, -17, -14, -11, -8, -6, -4, -2, -1, 0, 0, 0,
    -1, -1, -3, -4, -6, -9, -12, -15, -19, -23, -27, -32, -37, -42, -48,
    -54, -61, -67, -75, -82, -90, -98, -106, -115, -124, -133, -142, -152, -162, -172,
    -182, -193, -203, -214, -225, -236, -247, -259, -270, -282, -293, -305, -317, -328, -340,
    -352, -364, -375, -387, -399, -410, -422, -433, -445, -456, -467, -478, -489, -499, -510,
    -520, -530, -540, -550, -559, -568, -577, -585, -594, -602, -609, -617, -624, -631, -637,
    -643, -649, -654, -659, -664, -668, -671, -675, -678, -680, -683, -684, -686, -687, -687,
    -687, -687, -686, -685, -683, -681
 >>

\* generateNoise that leaves the amplitude out of the product
generateNoiseUnscaled(time, amplitude) ==
    (NoiseSeed[time + 1] * Scale) \div 1000

\* glucoseSimulator.ts:46-50; time in minutes, amplitude in mg/dL
generateNoise(time, amplitude) ==
    (NoiseSeed[time + 1] * amplitude * Scale) \div 1000

-----------------------------------------------------------------------------
(* Curve interpolation; `elapsed` is minutesElapsed in milliseconds *)

\* the index the for-loop of getInsulinActivity/getCarbAbsorption breaks at,
\* 0 when it runs to the end
Bracket(curve, elapsed) ==
    LET hits == {i \in 1..(Len(curve) - 1) :
                    /\ elapsed >= curve[i].time * MsPerMinute
                    /\ elapsed <= curve[i + 1].time * MsPerMinute}
    IN  IF hits = {} THEN 0 ELSE CHOOSE i \in hits : \A j \in hits : i <= j

getInsulinActivity(elapsed) ==
    LET curve == DEFAULT_INSULIN_CURVE
        b == Bracket(curve, elapsed)
        prevPoint == IF b = 0 THEN curve[1] ELSE curve[b]
        nextPoint == IF b = 0 THEN curve[Len(curve)] ELSE curve[b + 1]
        timeDiff == (nextPoint.time - prevPoint.time) * MsPerMinute
        activityDiff == Frac(nextPoint.activity) - Frac(prevPoint.activity)
    IN  IF elapsed <= 0 THEN 0
        ELSE IF elapsed >= curve[Len(curve)].time * MsPerMinute THEN 0
        ELSE Frac(prevPoint.activity)
               + (activityDiff * (elapsed - prevPoint.time * MsPerMinute)) \div timeDiff

getCarbAbsorption(elapsed) ==
    LET curve == DEFAULT_CARB_CURVE
        b == Bracket(curve, elapsed)
        prevPoint == IF b = 0 THEN curve[1] ELSE curve[b]
        nextPoint == IF b = 0 THEN curve[Len(curve)] ELSE curve[b + 1]
        timeDiff == (nextPoint.time - prevPoint.time) * MsPerMinute
        absorptionDiff == Frac(nextPoint.absorption) - Frac(prevPoint.absorption)
    IN  IF elapsed <= 0 THEN 0
        ELSE IF elapsed >= curve[Len(curve)].time * MsPerMinute THEN Scale
        ELSE Frac(prevPoint.absorption)
               + (absorptionDiff * (elapsed - prevPoint.time * MsPerMinute)) \div timeDiff

-----------------------------------------------------------------------------
(* Effect calculator.  IOB and COB are returned in 1/Scale units or grams, *)
(* the four effects in 1/Scale mg/dL.  `iv` is this.intervalMinutes.       *)

calculateIOB(currentTime, trs, p) ==
    LET remainingInsulin(t) ==
            LET elapsed == currentTime - t.timestamp
            IN  IF t.type # "insulin" THEN 0
                ELSE IF elapsed < 0 \/ elapsed > p.insulinDuration * 60 * MsPerMinute THEN 0
                ELSE t.value * (Scale - getInsulinActivity(elapsed))
        totalIOB == Sum([k \in 1..Len(trs) |-> remainingInsulin(trs[k])])
    IN  Max(0, totalIOB)

calculateCOB(currentTime, trs, p) ==
    LET remainingCarbs(t) ==
            LET elapsed == currentTime - t.timestamp
            IN  IF t.type # "carb" THEN 0
                ELSE IF elapsed < 0 \/ elapsed > p.carbAbsorptionRate * 60 * MsPerMinute THEN 0
                ELSE t.value * (Scale - getCarbAbsorption(elapsed))
        totalCOB == Sum([k \in 1..Len(trs) |-> remainingCarbs(trs[k])])
    IN  Max(0, totalCOB)

\* calculateInsulinEffect that counts a falling activity like a rising one
calculateInsulinEffectBothWays(currentTime, trs, p, iv) ==
    LET effect(t) ==
            LET elapsed == currentTime - t.timestamp
                activity == getInsulinActivity(elapsed)
                currentActivity == getInsulinActivity(elapsed - iv * MsPerMinute)
                deltaActivity == activity - Max(0, currentActivity)
            IN  IF t.type # "insulin" THEN 0
                ELSE IF elapsed < 0 \/ elapsed > p.insulinDuration * 60 * MsPerMinute THEN 0
                ELSE IF deltaActivity > 0
                     THEN deltaActivity * t.value * p.insulinSensitivity
                     ELSE (0 - deltaActivity) * t.value * p.insulinSensitivity
    IN  Sum([k \in 1..Len(trs) |-> effect(trs[k])])

calculateInsulinEffect(currentTime, trs, p, iv) ==
    LET effect(t) ==
            LET elapsed == currentTime - t.timestamp
                activity == getInsulinActivity(elapsed)
                currentActivity == getInsulinActivity(elapsed - iv * MsPerMinute)
                deltaActivity == activity - Max(0, currentActivity)
            IN  IF t.type # "insulin" THEN 0
                ELSE IF elapsed < 0 \/ elapsed > p.insulinDuration * 60 * MsPerMinute THEN 0
                ELSE IF deltaActivity > 0
                     THEN deltaActivity * t.value * p.insulinSensitivity
                     ELSE 0
    IN  Sum([k \in 1..Len(trs) |-> effect(trs[k])])

calculateCarbEffect(currentTime, trs, p, iv) ==
    LET effect(t) ==
            LET elapsed == currentTime - t.timestamp
                absorption == getCarbAbsorption(elapsed)
                previousAbsorption == getCarbAbsorption(elapsed - iv * MsPerMinute)
                deltaAbsorption == absorption - Max(0, previousAbsorption)
            IN  IF t.type # "carb" THEN 0
                ELSE IF elapsed < 0 \/ elapsed > p.carbAbsorptionRate * 60 * MsPerMinute THEN 0
                ELSE IF deltaAbsorption > 0
                     THEN (deltaAbsorption * t.value * p.insulinSensitivity) \div p.carbRatio
                     ELSE 0
    IN  Sum([k \in 1..Len(trs) |-> effect(trs[k])])

calculateBasalEffect(currentTime, p, iv) ==
    LET hour == getHours(currentTime)
        basalRate == p.basalRates[hour + 1]
    IN  (basalRate * iv * p.insulinSensitivity * Scale) \div (10 * 60)

calculateLiverGlucoseProduction(p, iv) ==
    (p.liverGlucoseProduction * iv * Scale) \div 10

-----------------------------------------------------------------------------
(* Projection driver, glucoseSimulator.ts:221-271.  `wall` is the value of *)
(* `new Date()` while the loop runs.                                       *)

\* Math.max(40, Math.min(400, currentGlucose))
Clamp(g) == IF g = NaN THEN NaN ELSE Max(40 * Scale, Min(400 * Scale, g))

\* StepGlucose with the bounds applied after each term instead of once
StepGlucoseClampEach(g, currentTime, timeElapsed, trs, p, iv) ==
    IF g = NaN THEN NaN ELSE
    Clamp(Clamp(Clamp(Clamp(Clamp(g - calculateInsulinEffect(currentTime, trs, p, iv))
            + calculateCarbEffect(currentTime, trs, p, iv))
            - calculateBasalEffect(currentTime, p, iv))
            + calculateLiverGlucoseProduction(p, iv))
            + generateNoise(timeElapsed, p.noiseLevel))

\* one pass of the loop body for i > 0: the glucose carried to the next step
StepGlucose(g, currentTime, timeElapsed, trs, p, iv) ==
    IF g = NaN THEN NaN ELSE
    Clamp(g - calculateInsulinEffect(currentTime, trs, p, iv)
            + calculateCarbEffect(currentTime, trs, p, iv)
            - calculateBasalEffect(currentTime, p, iv)
            + calculateLiverGlucoseProduction(p, iv)
            + generateNoise(timeElapsed, p.noiseLevel))

\* MakeReading with the insulin on board taken at the wall clock instead of
\* the grid instant
MakeReadingAtWallClock(currentTime, g, trs, p, wall) ==
    [ id        |-> <<"glucose", currentTime>>,
      timestamp |-> currentTime,
      value     |-> Round(g, 10),
      iob       |-> Round(calculateIOB(wall, trs, p), 100),
      cob       |-> Round(calculateCOB(currentTime, trs, p), 10),
      isFuture  |-> currentTime > wall,
      patientId |-> p.id ]

\* the object pushed onto `readings`
MakeReading(currentTime, g, trs, p, wall) ==
    [ id        |-> <<"glucose", currentTime>>,
      timestamp |-> currentTime,
      value     |-> Round(g, 10),
      iob       |-> Round(calculateIOB(currentTime, trs, p), 100),
      cob       |-> Round(calculateCOB(currentTime, trs, p), 10),
      isFuture  |-> currentTime > wall,
      patientId |-> p.id ]

\* The for-loop of lines 232-268.  `Pass` is one pass of its body on the loop
\* state (i, currentGlucose, readings); the passes are run in blocks of
\* BlockLength to keep the evaluation stack shallow.
BlockLength == 12

simulate(p, trs, startTime, durationHours, iv, wall) ==
    LET totalIntervals == Ceil(durationHours * 60, iv)
        alignedStartTime == alignToFiveMinutes(startTime)
        Pass(st) ==
            LET i == st.i
                currentTime == alignedStartTime + i * iv * MsPerMinute
                timeElapsed == i * iv
                currentGlucose ==
                    IF i > 0
                    THEN StepGlucose(st.currentGlucose, currentTime, timeElapsed, trs, p, iv)
                    ELSE st.currentGlucose
            IN  [ i |-> i + 1,
                  currentGlucose |-> currentGlucose,
                  readings |-> Append(st.readings,
                                      MakeReading(currentTime, currentGlucose, trs, p, wall)) ]
        RECURSIVE Run(_, _)
        Run(st, last) == IF st.i > last THEN st ELSE Run(Pass(st), last)
        RECURSIVE Blocks(_)
        Blocks(st) ==
            IF st.i > totalIntervals THEN st.readings
            ELSE Blocks(Run(st, Min(st.i + BlockLength - 1, totalIntervals)))
    IN  Blocks([i |-> 0, currentGlucose |-> p.currentGlucose, readings |-> <<>>])

-----------------------------------------------------------------------------
(* simulateForward, glucoseSimulator.ts:276-297 *)

\* the filter of lines 285-288: hoursAgo <= 24
IsRelevantTreatment(t, wall) == wall - t.timestamp <= 24 * MsPerHour

simulateForward(p, trs, hoursForward, iv, wall) ==
    LET alignedNow == alignToFiveMinutes(wall)
        relevantTreatments == SelectSeq(trs, LAMBDA t : IsRelevantTreatment(t, wall))
    IN  simulate(p, relevantTreatments, alignedNow, hoursForward, iv, wall)

-----------------------------------------------------------------------------
(* updateSimulation, glucoseSimulator.ts:302-334 *)

\* IsPastReading without the test of the isFuture flag
IsPastReadingAnyFlag(r, fromTime) == r.timestamp < fromTime

\* the filter of lines 309-311
IsPastReading(r, fromTime) == r.timestamp < fromTime /\ ~r.isFuture

\* Array.prototype.sort with (a, b) => b.timestamp - a.timestamp: stable,
\* descending by timestamp, and in place
RECURSIVE SortByTimestampDesc(_)
SortByTimestampDesc(s) ==
    IF s = <<>> THEN <<>>
    ELSE LET r == s[Len(s)]
             front == SortByTimestampDesc(SubSeq(s, 1, Len(s) - 1))
             before == SelectSeq(front, LAMBDA x : x.timestamp >= r.timestamp)
             after == SelectSeq(front, LAMBDA x : x.timestamp < r.timestamp)
         IN  before \o <<r>> \o after

\* ReanchoredPatient taking the baseline from the other end of the sorted
\* array, the oldest kept reading
ReanchoredPatientOldest(p, sortedPast) ==
    IF sortedPast # <<>>
    THEN [p EXCEPT !.currentGlucose = (sortedPast[Len(sortedPast)].value * Scale) \div 10]
    ELSE p

\* lines 314-320: the patient the projection runs with
ReanchoredPatient(p, sortedPast) ==
    IF sortedPast # <<>>
    THEN [p EXCEPT !.currentGlucose = (sortedPast[1].value * Scale) \div 10]
    ELSE p

hoursForwardOfUpdate == 12

\* lines 309-315: the local array `pastReadings` once line 315 has sorted it
\* in place
PastReadings(existing, fromTime) ==
    SortByTimestampDesc(SelectSeq(existing, LAMBDA r : IsPastReading(r, fromTime)))

\* the returned [...pastReadings, ...newReadings]
updateSimulation(p, trs, existing, fromTime, iv, wall) ==
    LET sortedPast == PastReadings(existing, fromTime)
        newReadings == simulate(ReanchoredPatient(p, sortedPast), trs, fromTime,
                                hoursForwardOfUpdate, iv, wall)
    IN  sortedPast \o newReadings

-----------------------------------------------------------------------------
(* Inputs *)

\* a Date on the second day of the model's calendar
At(h, m, s, ms) == ((24 + h) * 60 + m) * MsPerMinute + s * 1000 + ms

\* src/types/index.ts:85-101, the fields the engine reads
DEFAULT_PATIENT ==
    [ id |-> "p1",
      insulinSensitivity |-> 50,
      carbRatio |-> 12,
      basalRates |-> [h \in 1..24 |-> 8],
      targetGlucose |-> [low |-> 80, high |-> 140],
      insulinDuration |-> 6,
      carbAbsorptionRate |-> 2,
      liverGlucoseProduction |-> 15,
      currentGlucose |-> 120 * Scale,
      noiseLevel |-> 5 ]

\* no basal, no liver production, no noise
QuietPatient ==
    [DEFAULT_PATIENT EXCEPT !.basalRates = [h \in 1..24 |-> 0],
                            !.liverGlucoseProduction = 0,
                            !.noiseLevel = 0,
                            !.currentGlucose = 150 * Scale]

Patients ==
    { DEFAULT_PATIENT,
      QuietPatient,
      [QuietPatient EXCEPT !.currentGlucose = 30 * Scale],
      [QuietPatient EXCEPT !.currentGlucose = 450 * Scale],
      [QuietPatient EXCEPT !.insulinDuration = 1, !.carbAbsorptionRate = 1],
      [QuietPatient EXCEPT !.insulinDuration = 8, !.carbAbsorptionRate = 3],
      [DEFAULT_PATIENT EXCEPT !.currentGlucose = 140 * Scale + 72],
      [DEFAULT_PATIENT EXCEPT !.basalRates = [h \in 1..24 |-> 30],
                              !.liverGlucoseProduction = 0] }

MaxTreatments == 2

TreatmentPool ==
    { [id |-> "t1", timestamp |-> At(10, 0, 0, 0),  type |-> "insulin", value |-> 1],
      [id |-> "t2", timestamp |-> At(9, 57, 0, 0),  type |-> "insulin", value |-> 2],
      [id |-> "t3", timestamp |-> At(10, 0, 0, 0),  type |-> "carb",    value |-> 30] }

SeqsUpTo(S, n) == UNION {[1..k -> S] : k \in 0..n}

TreatmentLists == SeqsUpTo(TreatmentPool, MaxTreatments)

StartTimes ==
    { At(10, 0, 0, 0), At(10, 5, 30, 0), At(10, 7, 0, 0),
      At(10, 5, 0, 500), At(10, 9, 59, 999) }

Durations == {0, 1, 3}

Intervals == {5, 7, 10}

WallClocks == {At(10, 6, 10, 0), At(10, 30, 0, 0), At(10, 31, 0, 0)}

-----------------------------------------------------------------------------------------------------------------------------------------------------
(* Specification of project: simulate applied to every input.  The          *)
(* arguments of the call are drawn with the other inputs; `call.op` tells   *)
(* whether the call has been made.                                          *)

\* `null` where a Date is expected
NoTime == -1

\* cgmTimer: null; the ids returned by setInterval are 1, 2, ...
NoTimer == 0

Threads == {"ui", "lifecycle", "timer"}

\* a handler that is not running.  `patient` and `treatment` hold zero or one
\* object; `lost` and `latest` record what the handler's projection deleted
\* and the newest stored values it started from.
IdleTask ==
    [ op |-> "none", pc |-> "idle", patient |-> <<>>, treatments |-> <<>>,
      treatment |-> <<>>, reading |-> 0, ran |-> FALSE, failed |-> FALSE,
      lost |-> {}, latest |-> {}, nextTime |-> NoTime ]

\* useSimulationStore.ts:103-118 and the empty tables of database.ts:40-100
StoreCreated ==
    /\ store = [ currentPatient |-> <<>>, currentPatientId |-> "",
                 recentTreatments |-> <<>>, isComputing |-> FALSE,
                 nextReadingTime |-> NoTime, cgmTimer |-> NoTimer, error |-> FALSE ]
    /\ db = [patients |-> {}, treatments |-> {}, readings |-> {}]
    /\ tasks = [t \in Threads |-> IdleTask]
    /\ used = [ops |-> 0, faults |-> 0]
    /\ timers = [live |-> {}, created |-> 0]

Timestamps(readings) == [i \in 1..Len(readings) |-> readings[i].timestamp]

LastTwo(s) == IF Len(s) <= 2 THEN s ELSE SubSeq(s, Len(s) - 1, Len(s))

Args(startTime, durationHours, iv) ==
    [op |-> "none", startTime |-> startTime, durationHours |-> durationHours,
     intervalMinutes |-> iv, threw |-> FALSE]

Init ==
    /\ patient \in Patients
    /\ treatments \in TreatmentLists
    /\ existingReadings = <<>>
    /\ now \in WallClocks
    /\ intervalMinutes = 5
    /\ call \in {Args(s, d, iv) : s \in StartTimes, d \in Durations, iv \in Intervals}
    /\ result = <<>>
    /\ pastReadings = <<>>
    /\ forwardLog = <<>>
    /\ simulateLog = <<>>
    /\ StoreCreated

\* Simulate with isFuture taken against the aligned start of the grid
SimulateAnchoredAtStart ==
    /\ intervalMinutes' = call.intervalMinutes
    /\ result' = simulate(patient, treatments, call.startTime, call.durationHours,
                          call.intervalMinutes, alignToFiveMinutes(call.startTime))
    /\ call' = [call EXCEPT !.op = "simulate"]
    /\ simulateLog' = LastTwo(Append(simulateLog,
                         [now |-> now, startTime |-> call.startTime,
                          durationHours |-> call.durationHours,
                          intervalMinutes |-> call.intervalMinutes,
                          readings |-> result']))
    /\ UNCHANGED <<patient, treatments, existingReadings, now, pastReadings, forwardLog,
                   storeVars>>

\* simulate({patient, treatments, startTime, durationHours, intervalMinutes});
\* a call that leaves intervalMinutes out is the call with intervalMinutes = 5
Simulate ==
    /\ intervalMinutes' = call.intervalMinutes
    /\ result' = simulate(patient, treatments, call.startTime, call.durationHours,
                          call.intervalMinutes, now)
    /\ call' = [call EXCEPT !.op = "simulate"]
    /\ simulateLog' = LastTwo(Append(simulateLog,
                         [now |-> now, startTime |-> call.startTime,
                          durationHours |-> call.durationHours,
                          intervalMinutes |-> call.intervalMinutes,
                          readings |-> result']))
    /\ UNCHANGED <<patient, treatments, existingReadings, now, pastReadings, forwardLog,
                   storeVars>>

Next == Simulate

Spec == Init /\ [][Next]_vars

-----------------------------------------------------------------------------
(* Specification of projectForward: simulateForward called as the wall     *)
(* clock advances                                                           *)

OldTreatment ==
    [id |-> "t0", timestamp |-> At(-15, 0, 0, 0), type |-> "insulin", value |-> 1]

ForwardTreatmentLists ==
    TreatmentLists \cup {<<OldTreatment>>} \cup {<<OldTreatment>> \o l : l \in SeqsUpTo(TreatmentPool, 1)}

ForwardClocks ==
    <<At(10, 5, 10, 0), At(10, 5, 40, 0), At(10, 6, 20, 250), At(10, 10, 0, 0)>>

HoursForward == {1, 12}

InitForward ==
    /\ patient \in {DEFAULT_PATIENT, QuietPatient}
    /\ treatments \in ForwardTreatmentLists
    /\ existingReadings = <<>>
    /\ now = ForwardClocks[1]
    /\ intervalMinutes = 5
    /\ call \in {Args(0, h, 5) : h \in HoursForward}
    /\ result = <<>>
    /\ pastReadings = <<>>
    /\ forwardLog = <<>>
    /\ simulateLog = <<>>
    /\ StoreCreated

\* simulateForward(patient, treatments, hoursForward)
SimulateForward ==
    /\ result' = simulateForward(patient, treatments, call.durationHours, intervalMinutes, now)
    /\ intervalMinutes' = intervalMinutes   \* simulate stores the interval it was handed
    /\ call' = [call EXCEPT !.op = "simulateForward", !.startTime = alignToFiveMinutes(now)]
    /\ forwardLog' = LastTwo(Append(forwardLog,
                        [now |-> now, hoursForward |-> call.durationHours,
                         timestamps |-> Timestamps(result')]))
    /\ UNCHANGED <<patient, treatments, existingReadings, now, pastReadings, simulateLog,
                   storeVars>>

\* time passes between two calls
Tick ==
    /\ \E k \in 1..Len(ForwardClocks) : ForwardClocks[k] > now /\ now' = ForwardClocks[k]
    /\ UNCHANGED <<patient, treatments, existingReadings, intervalMinutes, call,
                   result, pastReadings, forwardLog, simulateLog, storeVars>>

NextForward == SimulateForward \/ Tick

SpecForward == InitForward /\ [][NextForward]_vars

-----------------------------------------------------------------------------
(* Specification of reproject: updateSimulation applied to stored readings *)

MaxExisting == 3

StoredReading(prefix, ts, value, iob, cob, isFuture) ==
    [ id |-> <<prefix, ts>>, timestamp |-> ts, value |-> value, iob |-> iob,
      cob |-> cob, isFuture |-> isFuture, patientId |-> "p1" ]

\* readings of earlier runs, on the 5-minute grid; the last one was projected
\* as a future reading and has not been advanced
ReadingPool ==
    { StoredReading("historical", At(9, 55, 0, 0), 1100, 0, 0, FALSE),
      StoredReading("glucose", At(10, 0, 0, 0), 1400, 100, 0, FALSE),
      StoredReading("glucose", At(10, 5, 0, 0), 1323, 97, 280, FALSE),
      StoredReading("glucose", At(10, 10, 0, 0), 1250, 93, 260, TRUE) }

\* every order of every choice of at most MaxExisting stored readings
ExistingLists ==
    {l \in SeqsUpTo(ReadingPool, MaxExisting) :
        \A i, j \in 1..Len(l) : i # j => l[i] # l[j]}

FromTimes ==
    { At(9, 50, 0, 0), At(10, 5, 30, 0), At(10, 7, 0, 0), At(10, 10, 0, 0), At(10, 15, 0, 0) }

InitReproject ==
    /\ patient \in {DEFAULT_PATIENT, QuietPatient,
                    [DEFAULT_PATIENT EXCEPT !.currentGlucose = 140 * Scale + 72],
                    [QuietPatient EXCEPT !.currentGlucose = NaN]}
    /\ treatments \in SeqsUpTo(TreatmentPool, 1)
    /\ existingReadings \in ExistingLists
    /\ now = At(10, 11, 0, 0)
    /\ intervalMinutes = 5
    /\ call \in {Args(t, hoursForwardOfUpdate, 5) : t \in FromTimes}
    /\ result = <<>>
    /\ pastReadings = <<>>
    /\ forwardLog = <<>>
    /\ simulateLog = <<>>
    /\ StoreCreated

\* updateSimulation(patient, treatments, existingReadings, fromTime).  filter
\* allocates a new array and `patient = { ...patient }` rebinds the parameter,
\* so the caller's existingReadings and patient are not assigned.
UpdateSimulation ==
    /\ result' = updateSimulation(patient, treatments, existingReadings, call.startTime,
                                  intervalMinutes, now)
    /\ pastReadings' = PastReadings(existingReadings, call.startTime)
    /\ intervalMinutes' = intervalMinutes
    /\ call' = [call EXCEPT !.op = "updateSimulation"]
    /\ UNCHANGED <<patient, existingReadings, treatments, now, forwardLog, simulateLog,
                   storeVars>>

NextReproject == UpdateSimulation

SpecReproject == InitReproject /\ [][NextReproject]_vars

-----------------------------------------------------------------------------
(* The SQLite tables, src/store/database.ts.  A table is the set of its    *)
(* rows; glucose_readings has `id` as PRIMARY KEY.  expo-sqlite runs the    *)
(* statements in the order they are issued.                                *)

Range(s) == {s[i] : i \in 1..Len(s)}

\* database.ts:185-206, INSERT OR REPLACE of every reading in one transaction
saveGlucoseReadings(rows, readings) ==
    LET ids == {readings[i].id : i \in 1..Len(readings)}
    IN  {r \in rows : r.id \notin ids} \cup Range(readings)

\* database.ts:233-240, the rows the DELETE removes
ClearedReadings(rows, patientId, from) ==
    {r \in rows : r.patientId = patientId /\ r.isFuture /\ r.timestamp >= from}

clearFutureReadings(rows, patientId, from) ==
    rows \ ClearedReadings(rows, patientId, from)

\* ORDER BY timestamp ASC LIMIT 1
Earliest(rows) == CHOOSE r \in rows : \A q \in rows : r.timestamp <= q.timestamp

\* database.ts:270-275, the rows the SELECT of advanceNextReading ranges over
DueReadings(rows, patientId, wall) ==
    {r \in rows : r.patientId = patientId /\ r.isFuture /\ r.timestamp <= wall}

\* database.ts:266-294, the table after UPDATE ... SET isFuture = 0 WHERE id = ?
advanceNextReading(rows, patientId, wall) ==
    LET nextReading == Earliest(DueReadings(rows, patientId, wall))
    IN  {IF r.id = nextReading.id THEN [r EXCEPT !.isFuture = FALSE] ELSE r : r \in rows}

\* database.ts:297-308
getNextReadingTime(rows, patientId) ==
    LET future == {r \in rows : r.patientId = patientId /\ r.isFuture}
    IN  IF future = {} THEN NoTime ELSE Earliest(future).timestamp

\* database.ts:160-182, ORDER BY timestamp DESC
RECURSIVE getTreatments(_)
getTreatments(rows) ==
    IF rows = {} THEN <<>>
    ELSE LET t == CHOOSE x \in rows : \A y \in rows : x.timestamp >= y.timestamp
         IN  <<t>> \o getTreatments(rows \ {t})

\* treatments.slice(0, limit)
Slice(s, limit) == SubSeq(s, 1, Min(Len(s), limit))

-----------------------------------------------------------------------------
(* The store, src/store/useSimulationStore.ts, the handlers of the glucose  *)
(* screen that call it and the app-lifecycle hook.  A handler runs up to   *)
(* its next `await` in one step; the step includes the database statement  *)
(* the handler issues there.  glucoseReadings (the chart's copy of the     *)
(* table) and the simulationState dates are not modelled.                  *)

MaxOps == 4
MaxFaults == 1

\* the wall clock at the instants the handlers run
StoreClocks == <<At(10, 1, 0, 0), At(10, 12, 0, 0)>>

minBackgroundMinutes == 5

\* useSimulationStore.ts:158-165
NewPatient == [DEFAULT_PATIENT EXCEPT !.currentGlucose = 108 * Scale]

\* Math.round((108 + (Math.random() - 0.5) * 4) * 10) of the seven historical
\* readings, in tenths of mg/dL: two runs of Math.random
HistoricalDraws ==
    { <<1080, 1080, 1080, 1080, 1080, 1080, 1080>>,
      <<1073, 1092, 1083, 1065, 1089, 1078, 1093>> }

\* useSimulationStore.ts:23-51
generateHistoricalGlucoseData(p, durationMinutes, wall, draw) ==
    LET alignedNow == alignToFiveMinutes(wall)
        totalReadings == (durationMinutes \div 5) + 1
        timestamp(i) == alignedNow - (totalReadings - 1 - i) * 5 * MsPerMinute
    IN  [k \in 1..totalReadings |->
            [ id        |-> <<"historical", timestamp(k - 1)>>,
              timestamp |-> timestamp(k - 1),
              value     |-> draw[k],
              iob       |-> 0,
              cob       |-> 0,
              isFuture  |-> FALSE,
              patientId |-> p.id ]]

\* what the add-treatment form hands to addTreatment
TreatmentChoices == {[type |-> "insulin", value |-> 2]}

\* the values of the stored readings that are not future and have the
\* greatest timestamp
LatestValues(rows) ==
    LET past == {r \in rows : ~r.isFuture}
    IN  {r.value : r \in {q \in past : \A o \in past : o.timestamp <= q.timestamp}}

\* a handler starts on a thread that runs none: it counts against MaxOps
Begin(thread, task) ==
    /\ tasks[thread].pc = "idle"
    /\ used.ops < MaxOps
    /\ used' = [used EXCEPT !.ops = @ + 1]
    /\ tasks' = [tasks EXCEPT ![thread] = task]

\* startSimulation has returned to the handler that awaited it
Returned(task) ==
    IF task.op = "createPatient"
    THEN [task EXCEPT !.pc = "timer", !.patient = <<>>]
    ELSE [task EXCEPT !.pc = "idle", !.patient = <<>>]

\* handleCreatePatient up to the end of createPatient, useSimulationStore.ts:152-178
CreatePatient ==
    /\ store.currentPatientId = ""
    /\ Begin("ui", [IdleTask EXCEPT !.op = "createPatient", !.pc = "begin"])
    /\ \E draw \in HistoricalDraws :
          db' = [db EXCEPT !.patients = {NewPatient},
                           !.readings = saveGlucoseReadings(@,
                               generateHistoricalGlucoseData(NewPatient, 30, now, draw))]
    /\ store' = [store EXCEPT !.currentPatient = <<NewPatient>>,
                              !.currentPatientId = NewPatient.id,
                              !.error = FALSE]
    /\ UNCHANGED <<patient, treatments, existingReadings, now, intervalMinutes, call,
                   result, pastReadings, forwardLog, simulateLog, timers>>

\* handleAddTreatment up to the call of startSimulation:
\* useSimulationStore.ts:250-266 and loadTreatments, 275-282
AddTreatment ==
    /\ store.currentPatientId # ""
    /\ \A t \in db.treatments : t.id # <<"treatment", now>>
    /\ \E choice \in TreatmentChoices :
          LET treatment == [id |-> <<"treatment", now>>, timestamp |-> now,
                            type |-> choice.type, value |-> choice.value]
          IN  /\ Begin("ui", [IdleTask EXCEPT !.op = "addTreatment", !.pc = "begin",
                                                !.treatment = <<treatment>>])
              /\ db' = [db EXCEPT !.treatments = @ \cup {treatment}]
              /\ store' = [store EXCEPT !.recentTreatments =
                                            Slice(getTreatments(db'.treatments), 20)]
    /\ UNCHANGED <<patient, treatments, existingReadings, now, intervalMinutes, call,
                   result, pastReadings, forwardLog, simulateLog, timers>>

\* onRefresh up to the call of startSimulation
Refresh ==
    /\ store.currentPatient # <<>>
    /\ Begin("ui", [IdleTask EXCEPT !.op = "refresh", !.pc = "begin"])
    /\ UNCHANGED <<patient, treatments, existingReadings, now, intervalMinutes, call,
                   result, pastReadings, forwardLog, simulateLog, timers, store, db>>

\* startSimulation up to `await import`, useSimulationStore.ts:328-345
StartSimulation(thread) ==
    /\ tasks[thread].pc = "begin"
    /\ IF store.currentPatient = <<>> \/ store.isComputing
       THEN /\ tasks' = [tasks EXCEPT ![thread] = Returned(@)]
            /\ UNCHANGED store
       ELSE /\ store' = [store EXCEPT !.isComputing = TRUE]
            /\ tasks' = [tasks EXCEPT ![thread] =
                            [@ EXCEPT !.pc = "import",
                                      !.patient = store.currentPatient,
                                      !.treatments = store.recentTreatments,
                                      !.ran = TRUE,
                                      !.latest = LatestValues(db.readings)]]
    /\ UNCHANGED <<patient, treatments, existingReadings, now, intervalMinutes, call,
                   result, pastReadings, forwardLog, simulateLog, timers, db, used>>

\* startSimulation from the import to clearFutureReadings, lines 347-356
ClearFutureReadings(thread) ==
    /\ tasks[thread].pc = "import"
    /\ db' = [db EXCEPT !.readings = clearFutureReadings(@, tasks[thread].patient[1].id, now)]
    /\ tasks' = [tasks EXCEPT ![thread] =
                    [@ EXCEPT !.pc = "cleared",
                              !.treatments = SelectSeq(@, LAMBDA t : IsRelevantTreatment(t, now)),
                              !.lost = ClearedReadings(db.readings, tasks[thread].patient[1].id, now)]]
    /\ UNCHANGED <<patient, treatments, existingReadings, now, intervalMinutes, call,
                   result, pastReadings, forwardLog, simulateLog, timers, store, used>>

\* simulateForward and saveGlucoseReadings: useSimulationStore.ts:358-379 and
\* the catch of 397-401, part_000:702-729.  The write either commits or
\* throws; a transaction that throws is rolled back.
SimulateAndSave(thread) ==
    /\ tasks[thread].pc = "cleared"
    /\ \/ /\ db' = [db EXCEPT !.readings = saveGlucoseReadings(@,
                        simulateForward(tasks[thread].patient[1], tasks[thread].treatments,
                                        12, intervalMinutes, now))]
          /\ tasks' = [tasks EXCEPT ![thread] = [@ EXCEPT !.pc = "saved"]]
          /\ UNCHANGED <<store, used>>
       \/ /\ used.faults < MaxFaults
          /\ used' = [used EXCEPT !.faults = @ + 1]
          /\ store' = [store EXCEPT !.isComputing = FALSE,
                                    !.error = IF tasks[thread].op = "recompute" THEN @ ELSE TRUE]
          /\ tasks' = [tasks EXCEPT ![thread] = Returned([@ EXCEPT !.failed = TRUE])]
          /\ UNCHANGED db
    /\ UNCHANGED <<patient, treatments, existingReadings, now, intervalMinutes, call,
                   result, pastReadings, forwardLog, simulateLog, timers>>

\* the end of startSimulation, lines 381-393, and of handleRecomputation,
\* part_000:713-722
FinishSimulation(thread) ==
    /\ tasks[thread].pc = "saved"
    /\ store' = [store EXCEPT !.isComputing = FALSE]
    /\ tasks' = [tasks EXCEPT ![thread] = Returned([@ EXCEPT !.lost = {}])]
    /\ UNCHANGED <<patient, treatments, existingReadings, now, intervalMinutes, call,
                   result, pastReadings, forwardLog, simulateLog, timers, db, used>>

\* startCGMTimer up to `await database.getNextReadingTime`,
\* useSimulationStore.ts:423-434: the timer recorded in cgmTimer is cleared
\* and the query is issued
StartCGMTimer(thread) ==
    /\ tasks[thread].pc = "timer"
    /\ IF store.currentPatientId = ""
       THEN /\ tasks' = [tasks EXCEPT ![thread] = [@ EXCEPT !.pc = "idle"]]
            /\ UNCHANGED timers
       ELSE /\ timers' = [timers EXCEPT !.live = @ \ {store.cgmTimer}]
            /\ tasks' = [tasks EXCEPT ![thread] =
                            [@ EXCEPT !.pc = "interval",
                                      !.nextTime = getNextReadingTime(db.readings,
                                                                      store.currentPatientId)]]
    /\ UNCHANGED <<patient, treatments, existingReadings, now, intervalMinutes, call,
                   result, pastReadings, forwardLog, simulateLog, store, db, used>>

\* startCGMTimer after the await, lines 435-446: nextReadingTime is set when
\* the query found a reading, a new interval is created and recorded
SetCGMTimer(thread) ==
    /\ tasks[thread].pc = "interval"
    /\ LET nextTime == tasks[thread].nextTime
           timer == timers.created + 1
       IN  /\ timers' = [live |-> timers.live \cup {timer}, created |-> timer]
           /\ store' = [store EXCEPT
                           !.nextReadingTime = IF nextTime # NoTime THEN nextTime ELSE @,
                           !.cgmTimer = timer]
    /\ tasks' = [tasks EXCEPT ![thread] = [@ EXCEPT !.pc = "idle", !.nextTime = NoTime]]
    /\ UNCHANGED <<patient, treatments, existingReadings, now, intervalMinutes, call,
                   result, pastReadings, forwardLog, simulateLog, db, used>>

\* stopCGMTimer, lines 450-457
StopCGMTimer ==
    /\ store.cgmTimer # NoTimer
    /\ used.ops < MaxOps
    /\ used' = [used EXCEPT !.ops = @ + 1]
    /\ timers' = [timers EXCEPT !.live = @ \ {store.cgmTimer}]
    /\ store' = [store EXCEPT !.cgmTimer = NoTimer, !.nextReadingTime = NoTime]
    /\ UNCHANGED <<patient, treatments, existingReadings, now, intervalMinutes, call,
                   result, pastReadings, forwardLog, simulateLog, db, tasks>>

\* the interval callback: advanceToNextReading up to the return of
\* database.advanceNextReading, useSimulationStore.ts:460-469.  A call that
\* returns at one of its guards changes nothing.
AdvanceToNextReading ==
    /\ timers.live # {}
    /\ store.currentPatientId # ""
    /\ store.nextReadingTime # NoTime
    /\ now >= store.nextReadingTime
    /\ DueReadings(db.readings, store.currentPatientId, now) # {}
    /\ Begin("timer",
             [IdleTask EXCEPT !.op = "advance", !.pc = "advanced",
                 !.reading = Earliest(DueReadings(db.readings,
                                                 store.currentPatientId, now)).value])
    /\ db' = [db EXCEPT !.readings = advanceNextReading(@, store.currentPatientId, now)]
    /\ UNCHANGED <<patient, treatments, existingReadings, now, intervalMinutes, call,
                   result, pastReadings, forwardLog, simulateLog, timers, store>>

\* updatePatient({currentGlucose: newReading.value}), lines 227-247
updatePatient(currentPatient, value) ==
    [currentPatient EXCEPT !.currentGlucose = (value * Scale) \div 10]

\* advanceToNextReading from updatePatient to its end, lines 474-491
AdvanceUpdatePatient ==
    /\ tasks["timer"].pc = "advanced"
    /\ LET updated == IF store.currentPatient = <<>> THEN <<>>
                      ELSE <<updatePatient(store.currentPatient[1], tasks["timer"].reading)>>
           nextTime == getNextReadingTime(db.readings, store.currentPatientId)
       IN  /\ store' = [store EXCEPT !.currentPatient = updated,
                                     !.nextReadingTime = nextTime,
                                     !.error = IF updated = <<>> THEN TRUE ELSE @]
           /\ db' = [db EXCEPT !.patients = IF updated = <<>> THEN @ ELSE Range(updated)]
           /\ tasks' = [tasks EXCEPT !["timer"] =
                           [@ EXCEPT !.pc = IF nextTime = NoTime THEN "begin" ELSE "idle"]]
    /\ UNCHANGED <<patient, treatments, existingReadings, now, intervalMinutes, call,
                   result, pastReadings, forwardLog, simulateLog, timers, used>>

\* time passes while the app is in the foreground
TimePasses ==
    /\ \E k \in 1..Len(StoreClocks) : StoreClocks[k] > now /\ now' = StoreClocks[k]
    /\ UNCHANGED <<patient, treatments, existingReadings, intervalMinutes, call,
                   result, pastReadings, forwardLog, simulateLog, storeVars>>

\* The app goes to the background and comes back at a later instant:
\* handleAppStateChange, part_000:731-760, and handleRecomputation up to
\* clearFutureReadings, part_000:686-700.  The hook reads currentPatient and
\* recentTreatments of the last render.
Foreground ==
    /\ \E k \in 1..Len(StoreClocks) :
          /\ StoreClocks[k] - now >= minBackgroundMinutes * MsPerMinute
          /\ now' = StoreClocks[k]
    /\ store.currentPatient # <<>>
    /\ Begin("lifecycle",
             [IdleTask EXCEPT
                 !.op = "recompute", !.pc = "cleared",
                 !.patient = store.currentPatient,
                 !.treatments = SelectSeq(store.recentTreatments,
                                          LAMBDA t : IsRelevantTreatment(t, now')),
                 !.ran = TRUE,
                 !.latest = LatestValues(db.readings),
                 !.lost = ClearedReadings(db.readings, store.currentPatient[1].id, now')])
    /\ store' = [store EXCEPT !.isComputing = TRUE]
    /\ db' = [db EXCEPT !.readings = clearFutureReadings(@, store.currentPatient[1].id, now')]
    /\ UNCHANGED <<patient, treatments, existingReadings, intervalMinutes, call,
                   result, pastReadings, forwardLog, simulateLog, timers>>

InitStore ==
    /\ patient = DEFAULT_PATIENT
    /\ treatments = <<>>
    /\ existingReadings = <<>>
    /\ now = StoreClocks[1]
    /\ intervalMinutes = 5
    /\ call = Args(0, 0, 5)
    /\ result = <<>>
    /\ pastReadings = <<>>
    /\ forwardLog = <<>>
    /\ simulateLog = <<>>
    /\ StoreCreated

NextStore ==
    \/ CreatePatient
    \/ AddTreatment
    \/ Refresh
    \/ \E thread \in Threads : StartSimulation(thread)
    \/ \E thread \in Threads : ClearFutureReadings(thread)
    \/ \E thread \in Threads : SimulateAndSave(thread)
    \/ \E thread \in Threads : FinishSimulation(thread)
    \/ \E thread \in Threads : StartCGMTimer(thread)
    \/ \E thread \in Threads : SetCGMTimer(thread)
    \/ AdvanceToNextReading
    \/ AdvanceUpdatePatient
    \/ TimePasses
    \/ Foreground

SpecStore == InitStore /\ [][NextStore]_vars

-----------------------------------------------------------------------------
(* The app started again on a database written by earlier sessions *)

\* the most treatments an earlier session has recorded
MaxRecorded == 21

RecordedCounts == {0, MaxRecorded - 1, MaxRecorded}

\* the i-th newest treatment recorded before the restart: one unit of insulin
\* every ten minutes up to 09:50
RecordedTreatment(i) ==
    [ id        |-> <<"treatment", At(10, 0, 0, 0) - i * 10 * MsPerMinute>>,
      timestamp |-> At(10, 0, 0, 0) - i * 10 * MsPerMinute,
      type      |-> "insulin",
      value     |-> 1 ]

\* loadPatient as initializeStore calls it, up to the call of startCGMTimer:
\* useSimulationStore.ts:121-138 and 194-212, loadTreatments(20) of 275-282
LoadPatient(thread) ==
    /\ thread \in {"ui", "lifecycle"}
    /\ db.patients # {}
    /\ Begin(thread, [IdleTask EXCEPT !.op = "loadPatient", !.pc = "timer"])
    /\ LET found == CHOOSE p \in db.patients : TRUE
       IN  store' = [store EXCEPT !.currentPatient = <<found>>,
                                  !.currentPatientId = found.id,
                                  !.recentTreatments = Slice(getTreatments(db.treatments), 20),
                                  !.error = FALSE]
    /\ UNCHANGED <<patient, treatments, existingReadings, now, intervalMinutes, call,
                   result, pastReadings, forwardLog, simulateLog, db, timers>>

\* the tables hold the patient, the seven readings createPatient wrote at
\* 09:31 and the treatments recorded since; the store is newly constructed
InitRestart ==
    /\ patient = DEFAULT_PATIENT
    /\ treatments = <<>>
    /\ existingReadings = <<>>
    /\ now = StoreClocks[1]
    /\ intervalMinutes = 5
    /\ call = Args(0, 0, 5)
    /\ result = <<>>
    /\ pastReadings = <<>>
    /\ forwardLog = <<>>
    /\ simulateLog = <<>>
    /\ store = [ currentPatient |-> <<>>, currentPatientId |-> "",
                 recentTreatments |-> <<>>, isComputing |-> FALSE,
                 nextReadingTime |-> NoTime, cgmTimer |-> NoTimer, error |-> FALSE ]
    /\ \E k \in RecordedCounts : \E draw \in {d \in HistoricalDraws : d[1] # d[2]} :
          db = [ patients   |-> {NewPatient},
                 treatments |-> {RecordedTreatment(i) : i \in 1..k},
                 readings   |-> Range(generateHistoricalGlucoseData(
                                          NewPatient, 30, At(9, 31, 0, 0), draw)) ]
    /\ tasks = [t \in Threads |-> IdleTask]
    /\ used = [ops |-> 0, faults |-> 0]
    /\ timers = [live |-> {}, created |-> 0]

NextRestart ==
    \/ \E thread \in Threads : LoadPatient(thread)
    \/ \E thread \in Threads : StartCGMTimer(thread)
    \/ \E thread \in Threads : SetCGMTimer(thread)
    \/ StopCGMTimer
    \/ AddTreatment
    \/ Refresh
    \/ \E thread \in Threads : StartSimulation(thread)
    \/ \E thread \in Threads : ClearFutureReadings(thread)
    \/ \E thread \in Threads : SimulateAndSave(thread)
    \/ \E thread \in Threads : FinishSimulation(thread)
    \/ AdvanceToNextReading
    \/ AdvanceUpdatePatient
    \/ TimePasses

SpecRestart == InitRestart /\ [][NextRestart]_vars

\* The interval keeps firing and every awaited promise settles: the interval
\* callback and each step of a handler in flight is taken if it stays
\* possible.  SimulateAndSave(thread) is possible exactly while the handler
\* is at "cleared" and always leaves it, so its weak fairness is written as
\* the handler being away from "cleared" again and again.  What the user
\* does is left unfair.
FairSpecRestart ==
    /\ SpecRestart
    /\ WF_vars(AdvanceToNextReading)
    /\ WF_vars(AdvanceUpdatePatient)
    /\ \A thread \in Threads :
          /\ WF_vars(StartCGMTimer(thread))
          /\ WF_vars(SetCGMTimer(thread))
          /\ WF_vars(StartSimulation(thread))
          /\ WF_vars(ClearFutureReadings(thread))
          /\ []<>(tasks[thread].pc # "cleared")
          /\ WF_vars(FinishSimulation(thread))

-----------------------------------------------------------------------------
(* Specification of the shared simulator instance: the store imports one   *)
(* `glucoseSimulator` object, and simulate and simulateForward are called  *)
(* on it one after another as time passes.                                 *)

\* profiles the profile editor can save (updatePatient stores what it is
\* given): the default one, one with a zero insulin duration and one with
\* the target range turned upside down
SequencePatients ==
    { DEFAULT_PATIENT,
      [DEFAULT_PATIENT EXCEPT !.insulinDuration = 0],
      [DEFAULT_PATIENT EXCEPT !.targetGlucose = [low |-> 140, high |-> 80]] }

\* a bolus and a meal at 10:00
SequenceTreatments ==
    << CHOOSE t \in TreatmentPool : t.id = "t1", CHOOSE t \in TreatmentPool : t.id = "t3" >>

InitSequence ==
    /\ patient \in SequencePatients
    /\ treatments = SequenceTreatments
    /\ existingReadings = <<>>
    /\ now = ForwardClocks[1]
    /\ intervalMinutes = 5
    /\ call \in {Args(At(10, 0, 0, 0), 1, iv) : iv \in {5, 10}}
    /\ result = <<>>
    /\ pastReadings = <<>>
    /\ forwardLog = <<>>
    /\ simulateLog = <<>>
    /\ StoreCreated

NextSequence == Simulate \/ SimulateForward \/ Tick

SpecSequence == InitSequence /\ [][NextSequence]_vars

-----------------------------------------------------------------------------
(* Properties of project (specification Spec) *)

Projected == call.op = "simulate"

SingleTreatment(type) == Len(treatments) = 1 /\ treatments[1].type = type

\* C1 - Bounds invariant: every reading returned by simulate, the first
\* (i = 0) anchor reading included, has 40 <= value <= 400 mg/dL, whatever
\* the patient's currentGlucose.
BoundsInvariant ==
    Projected => \A i \in 1..Len(result) :
                    40 * 10 <= result[i].value /\ result[i].value <= 400 * 10

\* C5 - Grid alignment: every reading returned by simulate has a timestamp
\* whose minutes are a multiple of 5 and whose seconds are 0, for every
\* startTime.
GridAlignment ==
    Projected => \A i \in 1..Len(result) :
                    /\ getMinutes(result[i].timestamp) % 5 = 0
                    /\ getSeconds(result[i].timestamp) = 0

\* C7 - IOB zeroing: with a single insulin treatment dosed at t0, every
\* reading at or after t0 + insulinDuration*60 minutes has iob = 0.
IOBZeroing ==
    (Projected /\ SingleTreatment("insulin")) =>
        \A i \in 1..Len(result) :
            result[i].timestamp >= treatments[1].timestamp
                                     + patient.insulinDuration * 60 * MsPerMinute
                => result[i].iob = 0

\* the time of the activity curve's peak, in minutes after dosing
PeakMinutes ==
    LET c == DEFAULT_INSULIN_CURVE
        peak == CHOOSE k \in 1..Len(c) : \A j \in 1..Len(c) : c[j].activity <= c[k].activity
    IN  c[peak].time

\* C8 - Monotonic IOB decay: with a single insulin treatment, the iob of
\* consecutive readings is non-increasing for all readings later than the
\* peak of the activity curve (90 minutes after dosing).
MonotonicIOBDecay ==
    (Projected /\ SingleTreatment("insulin")) =>
        \A i \in 1..(Len(result) - 1) :
            result[i].timestamp > treatments[1].timestamp + PeakMinutes * MsPerMinute
                => result[i + 1].iob <= result[i].iob

\* C9 - COB zeroing: with a single carb treatment eaten at t0, every reading
\* at or after t0 + carbAbsorptionRate*60 minutes has cob = 0, also for
\* absorption rates below 2 hours.
COBZeroing ==
    (Projected /\ SingleTreatment("carb")) =>
        \A i \in 1..Len(result) :
            result[i].timestamp >= treatments[1].timestamp
                                     + patient.carbAbsorptionRate * 60 * MsPerMinute
                => result[i].cob = 0

-----------------------------------------------------------------------------
(* Properties of projectForward (specification SpecForward) *)

\* two instants of the same 5-minute window of the clock
SameWindow(a, b) == a \div (5 * MsPerMinute) = b \div (5 * MsPerMinute)


\* C6 - Canonical, idempotent grid: aligning an aligned instant changes
\* nothing, and two simulateForward calls whose start instants lie in the
\* same 5-minute window return the same set of reading timestamps.
CanonicalGrid ==
    /\ \A k \in 1..Len(forwardLog) :
          alignToFiveMinutes(alignToFiveMinutes(forwardLog[k].now))
              = alignToFiveMinutes(forwardLog[k].now)
    /\ (/\ Len(forwardLog) = 2
        /\ SameWindow(forwardLog[1].now, forwardLog[2].now)
        /\ forwardLog[1].hoursForward = forwardLog[2].hoursForward)
          => Range(forwardLog[1].timestamps) = Range(forwardLog[2].timestamps)

-----------------------------------------------------------------------------
(* Properties of reproject (specification SpecReproject) *)

Reprojected == call.op = "updateSimulation"

\* the cut time T of the call
CutTime == call.startTime

\* kept = {r : r.timestamp < T and r.isFuture == false}
Kept == {r \in Range(existingReadings) : r.timestamp < CutTime /\ r.isFuture = FALSE}

LatestKept == {r \in Kept : \A q \in Kept : q.timestamp <= r.timestamp}

\* the readings of the result that follow the kept ones
NewlyProjected == SubSeq(result, Cardinality(Kept) + 1, Len(result))

\* C2 - Re-anchoring: the first newly projected reading has the value of the
\* kept reading with the greatest timestamp; only when no reading is kept
\* does it have the (rounded) patient.currentGlucose.
ReAnchoring ==
    Reprojected =>
        /\ NewlyProjected # <<>>
        /\ IF Kept # {}
           THEN \E r \in LatestKept : NewlyProjected[1].value = r.value
           ELSE NewlyProjected[1].value = Round(patient.currentGlucose, 10)

ReAnchoringWitness ==
    /\ Reprojected
    /\ Cardinality(Kept) >= 2
    /\ existingReadings[1] \in Kept \ LatestKept
    /\ \A r \in LatestKept :
          /\ r.value # Round(patient.currentGlucose, 10)
          /\ \A q \in Kept \ LatestKept : q.value # r.value
    /\ \E r \in LatestKept : NewlyProjected[1].value = r.value

\* C3 - Ordering: the returned sequence is ordered by timestamp ascending,
\* timestamps strictly increasing along the whole sequence, for every order
\* and number of existing readings.
OrderedResult ==
    Reprojected => \A i \in 1..(Len(result) - 1) :
                      result[i].timestamp < result[i + 1].timestamp

\* C4 - Splice continuity: for every cut time T, on the 5-minute grid or
\* not, the greatest kept timestamp is strictly less than the first newly
\* projected timestamp, the new projection starts exactly at T, and no kept
\* timestamp occurs again among the newly projected ones.
SpliceContinuity ==
    Reprojected =>
        /\ NewlyProjected # <<>>
        /\ \A r \in Kept : r.timestamp < NewlyProjected[1].timestamp
        /\ NewlyProjected[1].timestamp = CutTime
        /\ \A r \in Kept : \A i \in 1..Len(NewlyProjected) :
              NewlyProjected[i].timestamp # r.timestamp

\* the readings carried over from existingReadings are exactly the kept ones,
\* each once and unchanged, and all the rest of the result is newly projected
KeptCarriedOver ==
    LET carried == SubSeq(result, 1, Len(result) - (hoursForwardOfUpdate * 60) \div intervalMinutes - 1)
    IN  /\ \A r \in Kept : Cardinality({i \in 1..Len(carried) : carried[i] = r}) = 1
        /\ \A r \in Range(existingReadings) \ Kept : r \notin Range(carried)
        /\ Len(carried) = Cardinality(Kept)

\* C10 - History preserved: a call of updateSimulation carries every kept
\* reading into its result with unchanged timestamp, value, iob and cob,
\* carries no other existing reading, and leaves the caller's patient and
\* existingReadings as they were.
HistoryPreserved ==
    [][Reprojected' =>
          /\ KeptCarriedOver'
          /\ existingReadings' = existingReadings
          /\ patient' = patient]_vars

HistoryPreservedWitness ==
    /\ Reprojected
    /\ Kept # {}
    /\ Range(existingReadings) \ Kept # {}
    /\ \E r \in Range(existingReadings) \ Kept : r.timestamp < CutTime
    /\ \A r \in Kept : r \in Range(result)


-----------------------------------------------------------------------------
(* Further properties of project (specification Spec) *)

\* C16 - isFuture correctness: for the wall clock `now` the call runs at,
\* every returned reading with timestamp > now has isFuture = TRUE and every
\* reading with timestamp <= now has isFuture = FALSE, also when the grid
\* starts in the past.
IsFutureCorrect ==
    Projected =>
        \A i \in 1..Len(result) :
            /\ result[i].timestamp > now => result[i].isFuture = TRUE
            /\ result[i].timestamp <= now => result[i].isFuture = FALSE

\* a grid that started in the past, has a reading exactly at `now` and
\* readings after it
IsFutureCorrectWitness ==
    /\ Projected
    /\ result[1].timestamp < now
    /\ \E i \in 1..Len(result) : result[i].timestamp = now /\ ~result[i].isFuture
    /\ \E i \in 1..Len(result) : result[i].timestamp > now /\ result[i].isFuture

\* C17 - Grid shape and termination: simulate returns exactly
\* ceil(durationHours * 60 / intervalMinutes) + 1 readings, the first at the
\* aligned start and each next one exactly intervalMinutes later.
GridShape ==
    Projected =>
        LET n == Len(result) - 1
            minutes == call.durationHours * 60
            iv == call.intervalMinutes
        IN  /\ n >= 0
            /\ n * iv >= minutes
            /\ n > 0 => (n - 1) * iv < minutes
            /\ result[1].timestamp = alignToFiveMinutes(call.startTime)
            /\ \A i \in 1..n :
                   result[i + 1].timestamp - result[i].timestamp = iv * MsPerMinute

\* a horizon that is not a whole number of intervals: 180 minutes in steps
\* of 7 give 27 readings, the last one past the end of the horizon
GridShapeWitness ==
    /\ Projected
    /\ call.durationHours = 3
    /\ call.intervalMinutes = 7
    /\ Len(result) = 27
    /\ result[27].timestamp - result[1].timestamp = 182 * MsPerMinute


-----------------------------------------------------------------------------
(* Properties of the shared simulator instance (specification SpecSequence) *)

\* what determinism compares: timestamp, value, iob and cob of each reading
Core(readings) ==
    [i \in 1..Len(readings) |->
        [ timestamp |-> readings[i].timestamp, value |-> readings[i].value,
          iob |-> readings[i].iob, cob |-> readings[i].cob ]]

SameArguments(a, b) ==
    /\ a.startTime = b.startTime
    /\ a.durationHours = b.durationHours
    /\ a.intervalMinutes = b.intervalMinutes

\* C18 - Determinism: two simulate calls with the same patient, treatments,
\* startTime, durationHours and intervalMinutes return readings with the
\* same timestamps, values, iob and cob, whatever the wall clock of each call.
Determinism ==
    (Len(simulateLog) = 2 /\ SameArguments(simulateLog[1], simulateLog[2]))
        => Core(simulateLog[1].readings) = Core(simulateLog[2].readings)

\* two calls with the same arguments at different instants, where the wall
\* clock did reach the output (the isFuture flags differ), for a patient with
\* noise and a treatment list with insulin on board
DeterminismWitness ==
    /\ Len(simulateLog) = 2
    /\ SameArguments(simulateLog[1], simulateLog[2])
    /\ simulateLog[1].now # simulateLog[2].now
    /\ simulateLog[1].readings # simulateLog[2].readings
    /\ patient.noiseLevel > 0
    /\ \E i \in 1..Len(result) : result[i].iob > 0

\* C19 - Purity: no earlier simulate call changes a later simulateForward;
\* the readings it projects are 5 minutes apart whatever intervalMinutes
\* simulate was called with before.
DefaultStepAfterSimulate ==
    call.op = "simulateForward" =>
        \A i \in 1..(Len(result) - 1) :
            result[i + 1].timestamp - result[i].timestamp = 5 * MsPerMinute

\* the profile invariant: positive durations, rates and ratios, 24 basal
\* rates, a target range with low < high
ValidProfile(p) ==
    /\ p.insulinDuration > 0
    /\ p.carbAbsorptionRate > 0
    /\ p.carbRatio > 0
    /\ p.insulinSensitivity > 0
    /\ Len(p.basalRates) = 24
    /\ p.targetGlucose.low < p.targetGlucose.high

\* C20 - InvalidProfile: simulate and simulateForward called with a profile
\* that violates its invariant raise an error and return no reading.
InvalidProfileRejected ==
    (call.op # "none" /\ ~ValidProfile(patient)) => (call.threw /\ result = <<>>)

-----------------------------------------------------------------------------
(* Properties of the store (specification SpecStore) *)

\* the thread has run clearFutureReadings and not yet saveGlucoseReadings
InSequence(thread) == tasks[thread].pc = "cleared"

\* C11 - At most one projection in flight: no two handlers are inside the
\* clear-future-readings / compute / save-readings sequence at the same time.
AtMostOneInFlight ==
    \A a, b \in Threads : (InSequence(a) /\ InSequence(b)) => a = b

\* C12 - Atomic re-projection: a projection that failed has left storage as
\* it was; every reading its clearFutureReadings removed is in the table.
FailedProjectionLeavesStorage ==
    \A thread \in Threads : tasks[thread].failed => tasks[thread].lost \subseteq db.readings

\* addTreatment has returned on the ui thread, and without an error
AddTreatmentReturned ==
    /\ tasks["ui"].op = "addTreatment"
    /\ tasks["ui"].pc = "idle"
    /\ ~tasks["ui"].failed

\* C13 - Every recorded treatment is reflected: when addTreatment has
\* returned without error, the startSimulation it called ran with a treatment
\* list that holds the new treatment, or a startSimulation call is pending.
TreatmentReflected ==
    AddTreatmentReturned =>
        \/ /\ tasks["ui"].ran
           /\ tasks["ui"].treatment[1] \in Range(tasks["ui"].treatments)
        \/ \E thread \in Threads : tasks[thread].pc = "begin"

\* the thread is between the start and the end of a projection
Projecting(thread) == tasks[thread].pc \in {"import", "cleared", "saved"}

\* C14 - No stale baseline: a projection that started while non-future
\* readings were stored runs with a currentGlucose equal to the value of the
\* stored non-future reading with the greatest timestamp.
FreshBaseline ==
    \A thread \in Threads :
        (Projecting(thread) /\ tasks[thread].latest # {}) =>
            \E v \in tasks[thread].latest :
                tasks[thread].patient[1].currentGlucose * 10 = v * Scale

\* the step is the database.advanceNextReading of the timer
AdvanceStep == tasks["timer"].pc = "idle" /\ tasks["timer"]' .pc = "advanced"

\* C15 - Stored readings are immutable except for isFuture: no step changes
\* value, iob or cob of a row stored with isFuture = FALSE, and
\* advanceNextReading changes only the isFuture flag of the earliest
\* future-flagged reading with timestamp <= now.
StoredReadingsImmutable ==
    [][ /\ \A r \in db.readings : \A q \in db.readings' :
              (~r.isFuture /\ q.id = r.id) =>
                  (q.value = r.value /\ q.iob = r.iob /\ q.cob = r.cob)
        /\ AdvanceStep =>
              LET due == {r \in db.readings : r.isFuture /\ r.timestamp <= now}
              IN  \E r \in due :
                     /\ \A q \in due : r.timestamp <= q.timestamp
                     /\ db.readings' = (db.readings \ {r}) \cup {[r EXCEPT !.isFuture = FALSE]}
      ]_vars

-----------------------------------------------------------------------------
(* Scenarios of project (specification Spec) *)

\* no basal insulin, no liver production, no noise
NoBackground(p) ==
    /\ \A h \in 1..24 : p.basalRates[h] = 0
    /\ p.liverGlucoseProduction = 0
    /\ p.noiseLevel = 0

InRange(p) == 40 * Scale <= p.currentGlucose /\ p.currentGlucose <= 400 * Scale

SingleDoseScenario ==
    /\ Projected
    /\ SingleTreatment("insulin")
    /\ treatments[1].value = 1
    /\ treatments[1].timestamp = result[1].timestamp
    /\ NoBackground(patient)
    /\ patient.insulinSensitivity = 50
    /\ patient.currentGlucose = 150 * Scale
    /\ call.intervalMinutes = 5
    /\ call.durationHours >= 1

\* the index of the first reading that has the smallest value
FirstMinimum(readings) ==
    CHOOSE i \in 1..Len(readings) :
        /\ \A j \in 1..Len(readings) : readings[i].value <= readings[j].value
        /\ \A j \in 1..(i - 1) : readings[j].value > readings[i].value

StepDelta(i) ==
    LET currentTime == result[i + 1].timestamp
    IN  0 - calculateInsulinEffect(currentTime, treatments, patient, call.intervalMinutes)
          + calculateCarbEffect(currentTime, treatments, patient, call.intervalMinutes)
          - calculateBasalEffect(currentTime, patient, call.intervalMinutes)
          + calculateLiverGlucoseProduction(patient, call.intervalMinutes)
          + generateNoise(i * call.intervalMinutes, patient.noiseLevel)

\* the unrounded glucose carried along the grid: carried[1] is
\* patient.currentGlucose, carried[i + 1] the bounded sum of carried[i] and
\* the five terms of step i
RECURSIVE CarriedFrom(_, _)
CarriedFrom(carried, n) ==
    IF Len(carried) > n THEN carried
    ELSE CarriedFrom(
             Append(carried,
                    Max(40 * Scale,
                        Min(400 * Scale, carried[Len(carried)] + StepDelta(Len(carried))))),
             n)

Carried == CarriedFrom(<<patient.currentGlucose>>, Len(result) - 1)

\* C26 - Step transition: the reading at i = 0 carries patient.currentGlucose
\* with no effect applied; for i > 0 the carried glucose is the previous
\* carried glucose minus the insulin effect plus the carb effect minus the
\* basal effect plus the liver production plus the noise, bounded to 40..400
\* once, after all five terms; each reading shows the carried value rounded
\* to a tenth while the unrounded one is carried on; and a value driven to 40
\* or 400 does not go past it.
StepTransition ==
    Projected =>
        LET carried == Carried
        IN  /\ Len(carried) = Len(result)
            /\ \A i \in 1..Len(result) :
                   /\ result[i].value = Round(carried[i], 10)
                   /\ i > 1 => (400 <= result[i].value /\ result[i].value <= 4000)

\* a projection of more than twelve steps with two treatments in which one
\* reading sits on the lower bound 40 and another moves above it
StepTransitionWitness ==
    /\ Projected
    /\ Len(treatments) = 2
    /\ Len(result) > 12
    /\ \E i \in 2..Len(result) : result[i].value = 400
    /\ \E i \in 2..Len(result) : result[i].value # result[i - 1].value /\ result[i].value > 400

\* the insulin effect applied at the step that produces reading i (i > 1)
InsulinEffectAt(i) ==
    calculateInsulinEffect(result[i].timestamp, treatments, patient, call.intervalMinutes)

\* the sum of the insulin effects of all steps of the grid, in 1/Scale mg/dL
InsulinTotal == Sum([k \in 1..(Len(result) - 1) |-> InsulinEffectAt(k + 1)])

\* dose * ISF, in 1/Scale mg/dL
FullInsulinEffect == treatments[1].value * patient.insulinSensitivity * Scale

DoseOnGrid == \E i \in 1..Len(result) : result[i].timestamp = treatments[1].timestamp

PeakOnGrid ==
    \E i \in 1..Len(result) :
        result[i].timestamp = treatments[1].timestamp + 90 * MsPerMinute

-----------------------------------------------------------------------------
(* Re-projection without a baseline (specification SpecReproject) *)

\* updateSimulation was called with no kept reading and a currentGlucose that
\* is not a number
BaselineMissing ==
    /\ Reprojected
    /\ pastReadings = <<>>
    /\ patient.currentGlucose = NaN

\* C21 - ReprojectionBaselineMissing: updateSimulation called with no kept
\* readings and a patient.currentGlucose that is NaN fails, instead of
\* returning readings whose values are NaN.
ReprojectionBaselineMissing ==
    BaselineMissing =>
        /\ call.threw
        /\ \A i \in 1..Len(result) : result[i].value # NaN

-----------------------------------------------------------------------------
(* Storage and flags of the store (specification SpecStore) *)

\* C28 - One reading per grid instant in storage: after any sequence of
\* createPatient, startSimulation, handleRecomputation and
\* advanceToNextReading the stored readings of a patient contain at most one
\* reading per timestamp.
OneReadingPerTimestamp ==
    \A r \in db.readings : \A q \in db.readings :
        (r.patientId = q.patientId /\ r.timestamp = q.timestamp) => r = q

\* a call of startSimulation that has set isComputing and has not returned
StartSimulationInFlight(thread) ==
    Projecting(thread) /\ tasks[thread].op # "recompute"

\* C29 - The computing flag is always released: isComputing is false when a
\* startSimulation that set it returns, on success and on failure, and while
\* that call is in flight no other operation resets the flag to false.
ComputingFlagReleased ==
    [][\A thread \in Threads :
          /\ (StartSimulationInFlight(thread) /\ ~StartSimulationInFlight(thread)') =>
                 ~store'.isComputing
          /\ StartSimulationInFlight(thread)' => store'.isComputing]_vars

-----------------------------------------------------------------------------
(* Treatments and timers after a restart (specification SpecRestart) *)

\* C24 - All treatments of the last 24 hours are considered: every treatment
\* stored for the patient whose timestamp is within 24 hours before now is
\* in the treatment set startSimulation passes to the simulator, however
\* many treatments the patient has recorded.
RecentTreatmentsConsidered ==
    \A thread \in Threads :
        (tasks[thread].pc = "cleared" /\ tasks[thread].op # "recompute") =>
            \A t \in db.treatments :
                IsRelevantTreatment(t, now) => t \in Range(tasks[thread].treatments)

\* C30 - At most one CGM interval timer is live: after any interleaving of
\* startCGMTimer, stopCGMTimer and loadPatient calls, two startCGMTimer
\* calls overlapping at its await included, every interval timer that was
\* created and not cleared is the one recorded in cgmTimer.
OneLiveTimer ==
    \A timer \in timers.live : timer = store.cgmTimer

\* a patient is loaded and an interval timer is live
TimerTicking == timers.live # {} /\ store.currentPatient # <<>>

\* the stored future-flagged readings of the patient whose timestamp has passed
Due == DueReadings(db.readings, store.currentPatientId, now)

\* no future-flagged reading of the patient is stored
NoFutureLeft == getNextReadingTime(db.readings, store.currentPatientId) = NoTime

\* further handlers can still be started and no write has failed
Working == used.ops < MaxOps /\ used.faults = 0

\* C25 - Automatic progression: while a patient is loaded and the CGM timer
\* is ticking, every stored future-flagged reading whose timestamp has
\* passed is eventually flipped to non-future, and when no future readings
\* remain a new simulation is started; this from every reachable state, one
\* where the timer was started with no future readings stored included.
AutomaticProgression ==
    /\ (TimerTicking /\ Due # {} /\ Working) ~>
           (Due = {} \/ ~TimerTicking \/ ~Working)
    /\ (TimerTicking /\ NoFutureLeft /\ Working) ~>
           (~NoFutureLeft \/ (\E thread \in Threads : Projecting(thread))
              \/ ~TimerTicking \/ ~Working)
====
